---------------------------- MODULE Spec2Model ----------------------------
(***************************************************************************)
(* A model of gorkpool: a resizable worker pool (gorkpool.go) driven by    *)
(* caller goroutines, with the pool's shutdown goroutine, one goroutine    *)
(* per started worker, and the negating worker of the repository's tests   *)
(* (testWorker) as the worker implementation.                              *)
(*                                                                         *)
(* Every goroutine is a process with a program counter.  A step is one     *)
(* statement that other goroutines can observe: a mutex acquisition, a     *)
(* critical section up to its Unlock, a channel operation, a WaitGroup     *)
(* operation.                                                              *)
(***************************************************************************)
EXTENDS Integers, Sequences, FiniteSets, TLC

(* ------------------------------ bounds -------------------------------- *)

\* identities are 0..MaxId
MaxId == 1
\* worker instances the factory builds in one run
MaxWorkers == 2
\* caller goroutines issuing pool operations
NCallers == 2
\* tasks submitted in one run; task k is the k-th submitted
MaxTasks == 2
\* capacity of the input channel
InCap == 1
\* capacity of the output channel
OutCap == 1

Ids == 0..MaxId
Callers == 1..NCallers
Instances == 1..MaxWorkers

(* ------------------------------ values -------------------------------- *)

\* the zero value of a worker interface (a nil GorkWorker)
NoWorker == 0
\* the mutex is unlocked
Free == 0
NoId == -1

\* return values, all of one shape so that they compare
NoRet == [kind |-> "none", v |-> 0]
RetNil == [kind |-> "nil", v |-> 0]
RetWorker(w) == [kind |-> "worker", v |-> w]
RetInt(n) == [kind |-> "int", v |-> n]
RetBool(b) == [kind |-> "bool", v |-> IF b THEN 1 ELSE 0]
RetFactoryErr == [kind |-> "factoryErr", v |-> 0]

\* errors.go: NewErrIdConflict(id) carries the identity
NewErrIdConflict(id) == [kind |-> "idConflict", v |-> id]

VARIABLES
    workers,    \* p.workers: the registry, a map from identity to instance
    mutex,      \* p.mutex: Free or the caller holding it
    wg,         \* p.wg: the WaitGroup counter
    ctxDone,    \* p.ctx: whether the context is cancelled
    gs,         \* position of the gracefullyShutdown goroutine
    inputCh,    \* p.inputCh: buffered tasks
    inClosed,   \* whether p.inputCh is closed
    outputCh,   \* p.outputCh: buffered results
    outClosed,  \* whether p.outputCh is closed
    ws,         \* worker instances: identity, goroutine position, history
    nextW,      \* instances built so far
    thr,        \* caller goroutines: position and locals
    last,       \* what the step just taken returned to a caller, if it did
    nextTask,   \* tasks submitted so far
    produced,   \* results workers have placed on the output channel
    received,   \* results the consumer has taken from the output channel
    sawClose,   \* whether the consumer has observed the output channel closed
    panic       \* "none", or the runtime panic that ended the program

vars == <<workers, mutex, wg, ctxDone, gs, inputCh, inClosed, outputCh,
          outClosed, ws, nextW, thr, last, nextTask, produced, received,
          sawClose, panic>>


(* --------------------------- initial state ---------------------------- *)

\* a caller goroutine that is between two pool operations
IdleCaller == [pc |-> "idle", op |-> "none", id |-> NoId, w |-> NoWorker,
               task |-> 0]

\* a caller goroutine inside operation op at position pc
InCall(pc, op, id, w, task) == [pc |-> pc, op |-> op, id |-> id, w |-> w,
                                task |-> task]

\* the step just taken returned ret from operation op, called with id (NoId
\* when it takes none)
Return(op, id, ret) == [op |-> op, id |-> id, ret |-> ret]

\* the step just taken returned from no pool operation
NoReturn == Return("none", NoId, NoRet)

\* a slot of the instance table the factory has not filled yet
NoInstance == [id |-> NoId, pst |-> "none", val |-> 0, sig |-> 0,
               hist |-> "none"]

\* newTestWorker(id, input, output): a worker that has not been started; its
\* done channel is unbuffered, so it holds nothing
newTestWorker(id) == [id |-> id, pst |-> "new", val |-> 0, sig |-> 0,
                      hist |-> "created"]

\* NewGorkPool: an empty registry, an unlocked mutex, a zero WaitGroup, open
\* and empty channels, and the shutdown goroutine waiting on ctx.Done()
Init ==
    /\ workers = <<>>
    /\ mutex = Free
    /\ wg = 0
    /\ ctxDone = FALSE
    /\ gs = "ctx"
    /\ inputCh = <<>>
    /\ inClosed = FALSE
    /\ outputCh = <<>>
    /\ outClosed = FALSE
    /\ ws = [w \in Instances |-> NoInstance]
    /\ nextW = 0
    /\ thr = [t \in Callers |-> IdleCaller]
    /\ last = NoReturn
    /\ nextTask = 0
    /\ produced = {}
    /\ received = {}
    /\ sawClose = FALSE
    /\ panic = "none"

(* ------------------------- the registry map --------------------------- *)

\* w.ID() of an instance
ID(w) == ws[w].id

\* p.workers[id] = w
MapPut(m, id, w) == [i \in DOMAIN m \cup {id} |-> IF i = id THEN w ELSE m[i]]

\* MapDelete without the delete: the entry stays
MapDeleteNothing(m, id) == m

\* delete(p.workers, id)
MapDelete(m, id) == [i \in DOMAIN m \ {id} |-> m[i]]

\* len(p.workers), as Length() reads it inside its critical section
Length == Cardinality(DOMAIN workers)

\* _, ok := p.workers[id], as Contains(id) reads it inside its critical section
Contains(id) == id \in DOMAIN workers

\* Unlock left out
UnlockForgotten(t) == mutex

\* p.mutex.Unlock() by caller t
Unlock(t) == IF mutex = t THEN Free ELSE mutex

\* the program runs: no goroutine has panicked
Running == panic = "none"

\* caller t is between two pool operations
Idle(t) == thr[t].pc = "idle"

(* ------------------------------ AddWorker ----------------------------- *)

\* AddWorkerCS starting the goroutine before the conflict test
AddWorkerCSStartsAnyway(w) ==
    IF ID(w) \in DOMAIN workers
    THEN [err |-> NewErrIdConflict(ID(w)), workers |-> workers, wg |-> wg,
          go |-> TRUE]
    ELSE [err |-> RetNil, workers |-> MapPut(workers, ID(w), w),
          wg |-> wg + 1, go |-> TRUE]

\* AddWorkerCS also refusing an identity while an earlier worker of that
\* identity is still inside Process
AddWorkerCSWaitsOld(w) ==
    IF \/ ID(w) \in DOMAIN workers
       \/ \E v \in Instances \ {w} :
              ws[v].id = ID(w) /\ ws[v].pst \in {"select", "send"}
    THEN [err |-> NewErrIdConflict(ID(w)), workers |-> workers, wg |-> wg,
          go |-> FALSE]
    ELSE [err |-> RetNil, workers |-> MapPut(workers, ID(w), w),
          wg |-> wg + 1, go |-> TRUE]

\* AddWorkerCS without the conflict test: the new worker replaces the entry
AddWorkerCSNoCheck(w) ==
    [err |-> RetNil, workers |-> MapPut(workers, ID(w), w), wg |-> wg + 1,
     go |-> TRUE]

\* the critical section of AddWorker for the instance w the factory built:
\* the error returned, the registry and the WaitGroup counter afterwards, and
\* whether the goroutine running w.Process() is started
AddWorkerCS(w) ==
    IF ID(w) \in DOMAIN workers
    THEN [err |-> NewErrIdConflict(ID(w)), workers |-> workers, wg |-> wg,
          go |-> FALSE]
    ELSE [err |-> RetNil, workers |-> MapPut(workers, ID(w), w),
          wg |-> wg + 1, go |-> TRUE]

\* AddWorker(id), first statement: the factory builds a worker and AddWorker
\* goes on to Lock
AddWorkerCreate(t, id) ==
    /\ Running /\ Idle(t)
    /\ nextW < MaxWorkers
    /\ nextW' = nextW + 1
    /\ ws' = [ws EXCEPT ![nextW + 1] = newTestWorker(id)]
    /\ thr' = [thr EXCEPT ![t] = InCall("awLock", "AddWorker", id, nextW + 1, 0)]
    /\ last' = NoReturn
    /\ UNCHANGED <<workers, mutex, wg, ctxDone, gs, inputCh, inClosed,
                   outputCh, outClosed, nextTask, produced, received,
                   sawClose, panic>>

\* AddWorkerFactoryErr testing the error only after Lock and wg.Add(1): the
\* mutex must be free and the counter is raised
AddWorkerFactoryErrAfterAdd(t, id) ==
    /\ Running /\ Idle(t)
    /\ mutex = Free
    /\ wg' = wg + 1
    /\ last' = Return("AddWorker", id, RetFactoryErr)
    /\ UNCHANGED <<workers, mutex, ctxDone, gs, inputCh, inClosed,
                   outputCh, outClosed, ws, nextW, thr, nextTask, produced,
                   received, sawClose, panic>>

\* AddWorker(id), first statement: the factory fails and AddWorker returns
\* its error
AddWorkerFactoryErr(t, id) ==
    /\ Running /\ Idle(t)
    /\ last' = Return("AddWorker", id, RetFactoryErr)
    /\ UNCHANGED <<workers, mutex, wg, ctxDone, gs, inputCh, inClosed,
                   outputCh, outClosed, ws, nextW, thr, nextTask, produced,
                   received, sawClose, panic>>

\* AddWorker: p.mutex.Lock()
AddWorkerLock(t) ==
    /\ Running /\ thr[t].pc = "awLock"
    /\ mutex = Free
    /\ mutex' = t
    /\ thr' = [thr EXCEPT ![t].pc = "awCS"]
    /\ last' = NoReturn
    /\ UNCHANGED <<workers, wg, ctxDone, gs, inputCh, inClosed, outputCh,
                   outClosed, ws, nextW, nextTask, produced, received,
                   sawClose, panic>>

\* AddWorker: the critical section, the deferred Unlock and the return
AddWorkerBody(t) ==
    /\ Running /\ thr[t].pc = "awCS"
    /\ LET w == thr[t].w
           r == AddWorkerCS(w)
       IN /\ workers' = r.workers
          /\ wg' = r.wg
          /\ ws' = [ws EXCEPT ![w].pst = IF r.go THEN "select" ELSE @,
                              ![w].hist = IF r.err = RetNil THEN "added"
                                          ELSE "conflict"]
          /\ thr' = [thr EXCEPT ![t] = IdleCaller]
          /\ last' = Return("AddWorker", thr[t].id, r.err)
    /\ mutex' = Unlock(t)
    /\ UNCHANGED <<ctxDone, gs, inputCh, inClosed, outputCh, outClosed,
                   nextW, nextTask, produced, received, sawClose, panic>>

(* ---------------------- RemoveWorker, RemoveWorkerById ---------------- *)

\* the identities the range over p.workers may yield first: any key of the map,
\* and none (NoId) when the map is empty
RemoveWorkerFirst == IF DOMAIN workers = {} THEN {NoId} ELSE DOMAIN workers

\* RemoveWorkerCS deleting every entry instead of the one the range yielded
RemoveWorkerCSClears(id) ==
    IF id = NoId
    THEN [target |-> NoWorker, workers |-> workers]
    ELSE [target |-> workers[id], workers |-> <<>>]

\* RemoveWorkerCS without the delete
RemoveWorkerCSKeeps(id) ==
    IF id = NoId
    THEN [target |-> NoWorker, workers |-> workers]
    ELSE [target |-> workers[id], workers |-> workers]

\* the critical section of RemoveWorker when the range yields id first: the
\* target and the registry afterwards
RemoveWorkerCS(id) ==
    IF id = NoId
    THEN [target |-> NoWorker, workers |-> workers]
    ELSE [target |-> workers[id], workers |-> MapDelete(workers, id)]

\* RemoveWorkerByIdCS deleting every entry instead of the one looked up
RemoveWorkerByIdCSClears(id) ==
    IF id \notin DOMAIN workers
    THEN [target |-> NoWorker, workers |-> workers]
    ELSE [target |-> workers[id], workers |-> <<>>]

\* the critical section of RemoveWorkerById(id)
RemoveWorkerByIdCS(id) ==
    IF id \notin DOMAIN workers
    THEN [target |-> NoWorker, workers |-> workers]
    ELSE [target |-> workers[id], workers |-> MapDelete(workers, id)]

\* what both removals do with the outcome r of their critical section: Unlock,
\* then return nil for no target, or go on to target.SignalRemoval()
RemoveFinish(t, op, r) ==
    /\ workers' = r.workers
    /\ mutex' = Unlock(t)
    /\ IF r.target = NoWorker
       THEN /\ thr' = [thr EXCEPT ![t] = IdleCaller]
            /\ last' = Return(op, thr[t].id, RetNil)
            /\ ws' = ws
       ELSE /\ thr' = [thr EXCEPT ![t].pc = "signal", ![t].w = r.target]
            /\ last' = NoReturn
            /\ ws' = [ws EXCEPT ![r.target].hist = "removed"]
    /\ UNCHANGED <<wg, ctxDone, gs, inputCh, inClosed, outputCh, outClosed,
                   nextW, nextTask, produced, received, sawClose, panic>>

\* RemoveWorker: p.mutex.Lock()
RemoveWorkerLock(t) ==
    /\ Running /\ Idle(t)
    /\ mutex = Free
    /\ mutex' = t
    /\ thr' = [thr EXCEPT ![t] = InCall("rwCS", "RemoveWorker", NoId, NoWorker, 0)]
    /\ last' = NoReturn
    /\ UNCHANGED <<workers, wg, ctxDone, gs, inputCh, inClosed, outputCh,
                   outClosed, ws, nextW, nextTask, produced, received,
                   sawClose, panic>>

\* RemoveWorker: the range with its delete and break, the Unlock, the nil test
RemoveWorkerBody(t) ==
    /\ Running /\ thr[t].pc = "rwCS"
    /\ \E id \in RemoveWorkerFirst : RemoveFinish(t, "RemoveWorker", RemoveWorkerCS(id))

\* RemoveWorkerById(id): p.mutex.Lock()
RemoveWorkerByIdLock(t, id) ==
    /\ Running /\ Idle(t)
    /\ mutex = Free
    /\ mutex' = t
    /\ thr' = [thr EXCEPT ![t] = InCall("rbCS", "RemoveWorkerById", id, NoWorker, 0)]
    /\ last' = NoReturn
    /\ UNCHANGED <<workers, wg, ctxDone, gs, inputCh, inClosed, outputCh,
                   outClosed, ws, nextW, nextTask, produced, received,
                   sawClose, panic>>

\* RemoveWorkerById: the lookup, the delete, the Unlock on either path
RemoveWorkerByIdBody(t) ==
    /\ Running /\ thr[t].pc = "rbCS"
    /\ RemoveFinish(t, "RemoveWorkerById", RemoveWorkerByIdCS(thr[t].id))

\* target.SignalRemoval() is called: testWorker starts to send on w.done
SignalRemoval(t) ==
    /\ Running /\ thr[t].pc = "signal"
    /\ thr' = [thr EXCEPT ![t].pc = "sigSend"]
    /\ ws' = [ws EXCEPT ![thr[t].w].sig = @ + 1]
    /\ last' = NoReturn
    /\ UNCHANGED <<workers, mutex, wg, ctxDone, gs, inputCh, inClosed,
                   outputCh, outClosed, nextW, nextTask, produced, received,
                   sawClose, panic>>

(* ----------------------- Length, Contains, AddTask -------------------- *)

\* Length(): Lock, len(p.workers), deferred Unlock
LengthCall(t) ==
    /\ Running /\ Idle(t)
    /\ mutex = Free
    /\ last' = Return("Length", NoId, RetInt(Length))
    /\ UNCHANGED <<workers, mutex, wg, ctxDone, gs, inputCh, inClosed,
                   outputCh, outClosed, ws, nextW, thr, nextTask, produced,
                   received, sawClose, panic>>

\* Contains(id): Lock, the lookup, deferred Unlock
ContainsCall(t, id) ==
    /\ Running /\ Idle(t)
    /\ mutex = Free
    /\ last' = Return("Contains", id, RetBool(Contains(id)))
    /\ UNCHANGED <<workers, mutex, wg, ctxDone, gs, inputCh, inClosed,
                   outputCh, outClosed, ws, nextW, thr, nextTask, produced,
                   received, sawClose, panic>>

\* AddTask(task) is called with the next task: the caller is at the send
AddTaskCall(t) ==
    /\ Running /\ Idle(t)
    /\ nextTask < MaxTasks
    /\ nextTask' = nextTask + 1
    /\ thr' = [thr EXCEPT ![t] = InCall("send", "AddTask", NoId, NoWorker, nextTask + 1)]
    /\ last' = NoReturn
    /\ UNCHANGED <<workers, mutex, wg, ctxDone, gs, inputCh, inClosed,
                   outputCh, outClosed, ws, nextW, produced, received,
                   sawClose, panic>>

\* AddTaskSend not waiting on a full buffer: the new task takes the place of
\* the oldest buffered one
AddTaskSendOverwrites(t) ==
    /\ Running /\ thr[t].pc = "send"
    /\ IF inClosed
       THEN /\ panic' = "send on closed channel"
            /\ last' = NoReturn
            /\ UNCHANGED <<inputCh, thr>>
       ELSE /\ inputCh' = IF Len(inputCh) < InCap
                          THEN Append(inputCh, thr[t].task)
                          ELSE Append(Tail(inputCh), thr[t].task)
            /\ thr' = [thr EXCEPT ![t] = IdleCaller]
            /\ last' = Return("AddTask", NoId, NoRet)
            /\ panic' = panic
    /\ UNCHANGED <<workers, mutex, wg, ctxDone, gs, inClosed, outputCh,
                   outClosed, ws, nextW, nextTask, produced, received,
                   sawClose>>

\* AddTask: p.inputCh <- task. The send waits while the buffer is full, and
\* panics on a closed channel
AddTaskSend(t) ==
    /\ Running /\ thr[t].pc = "send"
    /\ IF inClosed
       THEN /\ panic' = "send on closed channel"
            /\ last' = NoReturn
            /\ UNCHANGED <<inputCh, thr>>
       ELSE /\ Len(inputCh) < InCap
            /\ inputCh' = Append(inputCh, thr[t].task)
            /\ thr' = [thr EXCEPT ![t] = IdleCaller]
            /\ last' = Return("AddTask", NoId, NoRet)
            /\ panic' = panic
    /\ UNCHANGED <<workers, mutex, wg, ctxDone, gs, inClosed, outputCh,
                   outClosed, ws, nextW, nextTask, produced, received,
                   sawClose>>

(* ------------------- the worker goroutine (testWorker) ---------------- *)

\* Process, select case <-w.done: caller t's SignalRemoval send is received,
\* Process returns and SignalRemoval, then the removal, return the target
ProcessDone(w, t) ==
    /\ Running /\ ws[w].pst = "select"
    /\ thr[t].pc = "sigSend" /\ thr[t].w = w
    /\ ws' = [ws EXCEPT ![w].pst = "returned"]
    /\ thr' = [thr EXCEPT ![t] = IdleCaller]
    /\ last' = Return(thr[t].op, thr[t].id, RetWorker(w))
    /\ UNCHANGED <<workers, mutex, wg, ctxDone, gs, inputCh, inClosed,
                   outputCh, outClosed, nextW, nextTask, produced, received,
                   sawClose, panic>>

\* Process, select case x, ok := <-w.input with a buffered task: ok is true,
\* the worker goes on to send -x
ProcessRecv(w) ==
    /\ Running /\ ws[w].pst = "select"
    /\ inputCh # <<>>
    /\ inputCh' = Tail(inputCh)
    /\ ws' = [ws EXCEPT ![w].pst = "send", ![w].val = 0 - Head(inputCh)]
    /\ last' = NoReturn
    /\ UNCHANGED <<workers, mutex, wg, ctxDone, gs, inClosed, outputCh,
                   outClosed, nextW, thr, nextTask, produced, received,
                   sawClose, panic>>

\* Process, select case x, ok := <-w.input on a closed and drained channel:
\* ok is false and Process returns
ProcessClosed(w) ==
    /\ Running /\ ws[w].pst = "select"
    /\ inputCh = <<>> /\ inClosed
    /\ ws' = [ws EXCEPT ![w].pst = "returned"]
    /\ last' = NoReturn
    /\ UNCHANGED <<workers, mutex, wg, ctxDone, gs, inputCh, inClosed,
                   outputCh, outClosed, nextW, thr, nextTask, produced,
                   received, sawClose, panic>>

\* Process: w.output <- -x. The send waits while the buffer is full, and panics
\* on a closed channel
ProcessSend(w) ==
    /\ Running /\ ws[w].pst = "send"
    /\ IF outClosed
       THEN /\ panic' = "send on closed channel"
            /\ UNCHANGED <<outputCh, produced, ws>>
       ELSE /\ Len(outputCh) < OutCap
            /\ outputCh' = Append(outputCh, ws[w].val)
            /\ produced' = produced \cup {ws[w].val}
            /\ ws' = [ws EXCEPT ![w].pst = "select", ![w].val = 0]
            /\ panic' = panic
    /\ last' = NoReturn
    /\ UNCHANGED <<workers, mutex, wg, ctxDone, gs, inputCh, inClosed,
                   outClosed, nextW, thr, nextTask, received, sawClose>>

\* WorkerDone also deleting the finished worker's registry entry
WorkerDoneUnregisters(w) ==
    /\ Running /\ ws[w].pst = "returned"
    /\ IF wg = 0
       THEN /\ panic' = "negative WaitGroup counter"
            /\ UNCHANGED <<wg, gs, ws, workers>>
       ELSE /\ wg' = wg - 1
            /\ gs' = IF wg = 1 /\ gs = "blocked" THEN "woken" ELSE gs
            /\ ws' = [ws EXCEPT ![w].pst = "exited"]
            /\ workers' = IF ID(w) \in DOMAIN workers /\ workers[ID(w)] = w
                          THEN MapDelete(workers, ID(w)) ELSE workers
            /\ panic' = panic
    /\ last' = NoReturn
    /\ UNCHANGED <<mutex, ctxDone, inputCh, inClosed, outputCh,
                   outClosed, nextW, thr, nextTask, produced, received,
                   sawClose>>

\* the goroutine AddWorker started, after w.Process() returned: p.wg.Done(),
\* which releases a blocked Wait when the counter reaches zero
WorkerDone(w) ==
    /\ Running /\ ws[w].pst = "returned"
    /\ IF wg = 0
       THEN /\ panic' = "negative WaitGroup counter"
            /\ UNCHANGED <<wg, gs, ws>>
       ELSE /\ wg' = wg - 1
            /\ gs' = IF wg = 1 /\ gs = "blocked" THEN "woken" ELSE gs
            /\ ws' = [ws EXCEPT ![w].pst = "exited"]
            /\ panic' = panic
    /\ last' = NoReturn
    /\ UNCHANGED <<workers, mutex, ctxDone, inputCh, inClosed, outputCh,
                   outClosed, nextW, thr, nextTask, produced, received,
                   sawClose>>

(* ------------------------- gracefullyShutdown ------------------------- *)

\* the caller's cancel function: ctx.Done() becomes readable
Cancel ==
    /\ Running /\ ~ctxDone
    /\ ctxDone' = TRUE
    /\ last' = NoReturn
    /\ UNCHANGED <<workers, mutex, wg, gs, inputCh, inClosed, outputCh,
                   outClosed, ws, nextW, thr, nextTask, produced, received,
                   sawClose, panic>>

\* <-p.ctx.Done(), then close(p.inputCh)
CloseInput ==
    /\ Running /\ gs = "ctx"
    /\ ctxDone
    /\ inClosed' = TRUE
    /\ gs' = "wait"
    /\ last' = NoReturn
    /\ UNCHANGED <<workers, mutex, wg, ctxDone, inputCh, outputCh, outClosed,
                   ws, nextW, thr, nextTask, produced, received, sawClose,
                   panic>>

\* Wait counting the workers registered now instead of the goroutines started
WaitForRegistered ==
    /\ Running /\ gs = "wait"
    /\ gs' = IF Length = 0 THEN "closeOut" ELSE "blocked"
    /\ last' = NoReturn
    /\ UNCHANGED <<workers, mutex, wg, ctxDone, inputCh, inClosed, outputCh,
                   outClosed, ws, nextW, thr, nextTask, produced, received,
                   sawClose, panic>>

\* p.wg.Wait() is called: it returns at once on a zero counter, and otherwise
\* blocks as a waiter
Wait ==
    /\ Running /\ gs = "wait"
    /\ gs' = IF wg = 0 THEN "closeOut" ELSE "blocked"
    /\ last' = NoReturn
    /\ UNCHANGED <<workers, mutex, wg, ctxDone, inputCh, inClosed, outputCh,
                   outClosed, ws, nextW, thr, nextTask, produced, received,
                   sawClose, panic>>

\* p.wg.Wait() resumes after the release: it returns if the counter is still
\* zero, and panics if an Add has raised it in between
WaitResume ==
    /\ Running /\ gs = "woken"
    /\ IF wg = 0
       THEN gs' = "closeOut" /\ panic' = panic
       ELSE gs' = gs /\ panic' = "WaitGroup is reused before previous Wait has returned"
    /\ last' = NoReturn
    /\ UNCHANGED <<workers, mutex, wg, ctxDone, inputCh, inClosed, outputCh,
                   outClosed, ws, nextW, thr, nextTask, produced, received,
                   sawClose>>

\* close(p.outputCh), and gracefullyShutdown returns
CloseOutput ==
    /\ Running /\ gs = "closeOut"
    /\ outClosed' = TRUE
    /\ gs' = "done"
    /\ last' = NoReturn
    /\ UNCHANGED <<workers, mutex, wg, ctxDone, inputCh, inClosed, outputCh,
                   ws, nextW, thr, nextTask, produced, received, sawClose,
                   panic>>

(* ------------------ the consumer of pool.OutputCh() ------------------- *)

\* a receive from the output channel that yields a buffered result
ConsumerRecv ==
    /\ Running /\ ~sawClose
    /\ outputCh # <<>>
    /\ received' = received \cup {Head(outputCh)}
    /\ outputCh' = Tail(outputCh)
    /\ last' = NoReturn
    /\ UNCHANGED <<workers, mutex, wg, ctxDone, gs, inputCh, inClosed,
                   outClosed, ws, nextW, thr, nextTask, produced, sawClose,
                   panic>>

\* a receive from the output channel, closed and drained: the consumer stops
ConsumerClosed ==
    /\ Running /\ ~sawClose
    /\ outputCh = <<>> /\ outClosed
    /\ sawClose' = TRUE
    /\ last' = NoReturn
    /\ UNCHANGED <<workers, mutex, wg, ctxDone, gs, inputCh, inClosed,
                   outputCh, outClosed, ws, nextW, thr, nextTask, produced,
                   received, panic>>

(* --------------------------- specification ---------------------------- *)

Next ==
    \/ \E t \in Callers, id \in Ids : AddWorkerCreate(t, id)
    \/ \E t \in Callers, id \in Ids : AddWorkerFactoryErr(t, id)
    \/ \E t \in Callers : AddWorkerLock(t)
    \/ \E t \in Callers : AddWorkerBody(t)
    \/ \E t \in Callers : RemoveWorkerLock(t)
    \/ \E t \in Callers : RemoveWorkerBody(t)
    \/ \E t \in Callers, id \in Ids : RemoveWorkerByIdLock(t, id)
    \/ \E t \in Callers : RemoveWorkerByIdBody(t)
    \/ \E t \in Callers : SignalRemoval(t)
    \/ \E t \in Callers : LengthCall(t)
    \/ \E t \in Callers, id \in Ids : ContainsCall(t, id)
    \/ \E t \in Callers : AddTaskCall(t)
    \/ \E t \in Callers : AddTaskSend(t)
    \/ \E w \in Instances, t \in Callers : ProcessDone(w, t)
    \/ \E w \in Instances : ProcessRecv(w)
    \/ \E w \in Instances : ProcessClosed(w)
    \/ \E w \in Instances : ProcessSend(w)
    \/ \E w \in Instances : WorkerDone(w)
    \/ Cancel
    \/ CloseInput
    \/ Wait
    \/ WaitResume
    \/ CloseOutput
    \/ ConsumerRecv
    \/ ConsumerClosed

Spec == Init /\ [][Next]_vars

(* ------------------------ what the history says ---------------------- *)

\* instances whose AddWorker returned nil and that no removal has taken since
Added == {w \in Instances : ws[w].hist = "added"}

\* instances a removal has deleted from the registry
Removed == {w \in Instances : ws[w].hist = "removed"}

\* instances whose AddWorker returned an IdConflict
Conflicted == {w \in Instances : ws[w].hist = "conflict"}

\* instances whose Process goroutine has been started
Started == {w \in Instances :
               ws[w].pst \in {"select", "send", "returned", "exited"}}

\* instances whose Process is running: started and not yet returned
InProcess == {w \in Instances : ws[w].pst \in {"select", "send"}}

\* the instances of a set that carry identity id
WithId(S, id) == {w \in S : ws[w].id = id}

\* instance w is a value of the registry map
Registered(w) == \E id \in DOMAIN workers : workers[id] = w

(* ------------------------------- C1 ----------------------------------- *)

\* C1 (as claimed): whenever the output channel is closed, the input channel
\* is closed and every Process goroutine that was ever started has returned.
C1_OutputClosedAfterAllProcessReturned ==
    outClosed => (inClosed /\ InProcess = {})

(* ------------------------------- C2 ----------------------------------- *)

\* C2: in every state the registry maps exactly the identities of the
\* instances whose AddWorker returned nil and that no removal has deleted
\* since, each to that instance; Length() is the number of successful adds
\* minus the number of removals, Contains(id) holds exactly for those
\* identities, and a Length() or Contains(id) call that has just returned
\* returned these values.
C2_RegistryIsAddedMinusRemoved ==
    /\ DOMAIN workers = {ws[w].id : w \in Added}
    /\ \A w \in Added : workers[ws[w].id] = w
    /\ Length = Cardinality(Added \cup Removed) - Cardinality(Removed)
    /\ \A id \in Ids : Contains(id) <=> WithId(Added, id) # {}
    /\ last.op = "Length" =>
           last.ret = RetInt(Cardinality(Added \cup Removed)
                             - Cardinality(Removed))
    /\ last.op = "Contains" =>
           last.ret = RetBool(WithId(Added, last.id) # {})

\* two workers were added and one of them removed, and Length() has just
\* returned 1
C2_Witness ==
    /\ Cardinality(Added) = 1 /\ Cardinality(Removed) = 1
    /\ last = Return("Length", NoId, RetInt(1))

(* ------------------------------- C3 ----------------------------------- *)

\* C3: the step of AddWorker that finds its worker's identity registered
\* returns an IdConflict carrying that identity and changes neither the
\* registry (so neither Length() nor Contains), nor the WaitGroup counter, nor
\* any worker's goroutine; and the Process loop of a worker whose AddWorker
\* returned IdConflict is never started.
C3_ConflictChangesNothing ==
    /\ [][\A t \in Callers :
            (thr[t].pc = "awCS" /\ thr'[t].pc # "awCS"
             /\ ID(thr[t].w) \in DOMAIN workers)
            => /\ last' = Return("AddWorker", thr[t].id,
                                 NewErrIdConflict(ID(thr[t].w)))
               /\ workers' = workers
               /\ wg' = wg
               /\ \A w \in Instances : ws'[w].pst = ws[w].pst]_vars
    /\ [](\A w \in Conflicted : ws[w].pst = "new")

\* AddWorker has just returned an IdConflict while a worker is registered
C3_Witness ==
    /\ last.op = "AddWorker" /\ last.ret = NewErrIdConflict(last.id)
    /\ Contains(last.id) /\ Length = 1 /\ wg = 1

(* ------------------------------- C4 ----------------------------------- *)

\* C4: for every identity, at most one instance holds the registry entry;
\* while no worker of that identity has been removed, AddWorker calls for it
\* that have returned, concurrent ones included, returned nil exactly once
\* and IdConflict otherwise; and the Process goroutines started for that
\* identity are exactly those of the instances whose AddWorker returned nil.
C4_OneWinnerPerIdentity ==
    \A id \in Ids :
        /\ Cardinality(WithId(Added, id)) <= 1
        /\ WithId(Started, id) = WithId(Added \cup Removed, id)
        /\ WithId(Removed, id) = {} =>
               /\ WithId(Conflicted, id) # {} =>
                      Cardinality(WithId(Added, id)) = 1
               /\ Contains(id) <=> WithId(Added, id) # {}
               /\ Cardinality(WithId(Started, id)) <= 1

\* two AddWorker calls for one identity overlapped on a pool without it: the
\* factory built instance 1 before instance 2, instance 2 was registered, and
\* instance 1's call then returned IdConflict
C4_Witness ==
    /\ ws[1].id = ws[2].id
    /\ ws[2].hist = "added" /\ ws[1].hist = "conflict"
    /\ Registered(2) /\ ws[2].pst = "select" /\ ws[1].pst = "new"

(* ------------------------------- C5 ----------------------------------- *)

\* C5: the critical section of RemoveWorkerById(id), for an unregistered id,
\* returns nil and changes neither the registry nor any worker; for a
\* registered id it deletes that entry and no other (Contains(id) is false
\* afterwards, Length() is one less, every other identity keeps its worker)
\* and goes on to signal the worker it found; and a RemoveWorkerById(id) that
\* has just returned a worker returned one of identity id that it deleted.
C5_RemoveByIdFrame ==
    /\ [][\A t \in Callers :
            (thr[t].pc = "rbCS" /\ thr'[t].pc # "rbCS")
            => LET id == thr[t].id
               IN IF id \notin DOMAIN workers
                  THEN /\ last' = Return("RemoveWorkerById", id, RetNil)
                       /\ workers' = workers
                       /\ ws' = ws /\ wg' = wg
                       /\ thr'[t] = IdleCaller
                  ELSE /\ thr'[t].pc = "signal"
                       /\ thr'[t].w = workers[id]
                       /\ id \notin DOMAIN workers'
                       /\ Cardinality(DOMAIN workers')
                              = Cardinality(DOMAIN workers) - 1
                       /\ \A j \in DOMAIN workers \ {id} :
                              j \in DOMAIN workers'
                              /\ workers'[j] = workers[j]
                       /\ DOMAIN workers' \subseteq DOMAIN workers]_vars
    /\ []((last.op = "RemoveWorkerById" /\ last.ret.kind = "worker")
            => (ws[last.ret.v].id = last.id
                /\ ws[last.ret.v].hist = "removed"))

\* RemoveWorkerById(id) has deleted a registered worker and is about to signal
\* it, and the worker of the other identity is still registered
C5_Witness ==
    \E t \in Callers :
        /\ thr[t].op = "RemoveWorkerById" /\ thr[t].pc = "signal"
        /\ ~Contains(thr[t].id) /\ Length = 1
        /\ ws[thr[t].w].id = thr[t].id

(* ------------------------------- C6 ----------------------------------- *)

\* C6: the critical section of RemoveWorker on a non-empty registry picks a
\* worker that is registered, deletes its entry and no other (Length() is one
\* less, the worker is not registered afterwards, every other identity keeps
\* its worker), and goes on to signal and return that worker.
C6_RemoveWorkerTakesOne ==
    [][\A t \in Callers :
         (thr[t].pc = "rwCS" /\ thr'[t].pc # "rwCS" /\ DOMAIN workers # {})
         => /\ thr'[t].pc = "signal"
            /\ LET w == thr'[t].w
               IN /\ w \in Instances
                  /\ ws[w].id \in DOMAIN workers
                  /\ workers[ws[w].id] = w
                  /\ ws[w].id \notin DOMAIN workers'
                  /\ \A j \in DOMAIN workers' : workers'[j] # w
                  /\ Cardinality(DOMAIN workers')
                         = Cardinality(DOMAIN workers) - 1
                  /\ \A j \in DOMAIN workers \ {ws[w].id} :
                         j \in DOMAIN workers' /\ workers'[j] = workers[j]
                  /\ DOMAIN workers' \subseteq DOMAIN workers]_vars

\* RemoveWorker has taken one of two registered workers and is about to
\* signal it; the other worker is still registered
C6_Witness ==
    \E t \in Callers :
        /\ thr[t].op = "RemoveWorker" /\ thr[t].pc = "signal"
        /\ Length = 1 /\ ~Registered(thr[t].w)
        /\ ws[thr[t].w].hist = "removed"

(* ------------------------------- C7 ----------------------------------- *)

\* C7: the critical section of RemoveWorker on an empty registry returns nil
\* at once, leaving the registry empty and every worker as it was (no
\* SignalRemoval is called) and the mutex unlocked; and no caller that is
\* between two operations holds the mutex.
C7_RemoveWorkerEmpty ==
    /\ [][\A t \in Callers :
            (thr[t].pc = "rwCS" /\ thr'[t].pc # "rwCS" /\ DOMAIN workers = {})
            => /\ last' = Return("RemoveWorker", NoId, RetNil)
               /\ thr'[t] = IdleCaller
               /\ DOMAIN workers' = {}
               /\ ws' = ws
               /\ mutex' = Free]_vars
    /\ [](\A t \in Callers : Idle(t) => mutex # t)

\* RemoveWorker has just returned nil on an empty registry
C7_Witness ==
    /\ last = Return("RemoveWorker", NoId, RetNil)
    /\ Length = 0 /\ mutex = Free

(* ------------------------------- C8 ----------------------------------- *)

\* callers that have deleted instance w and have yet to call its
\* SignalRemoval
AboutToSignal(w) == {t \in Callers : thr[t].pc = "signal" /\ thr[t].w = w}

\* callers inside SignalRemoval of instance w
Signalling(w) == {t \in Callers : thr[t].pc = "sigSend" /\ thr[t].w = w}

\* C8: SignalRemoval is called on an instance at most once, and only on an
\* instance a removal has deleted; a deleted instance has either been
\* signalled once or has exactly one caller about to signal it; and a caller
\* that is about to call or is inside SignalRemoval does not hold the mutex
\* and its target is no longer registered.
C8_SignalOncePerRemoval ==
    /\ \A w \in Instances :
          /\ ws[w].sig <= 1
          /\ ws[w].sig = 1 => w \in Removed
          /\ w \in Removed =>
                 Cardinality(AboutToSignal(w)) = 1 - ws[w].sig
          /\ w \notin Removed => AboutToSignal(w) \cup Signalling(w) = {}
          /\ Cardinality(Signalling(w)) <= ws[w].sig
    /\ \A t \in Callers :
          thr[t].pc \in {"signal", "sigSend"} =>
              /\ mutex # t
              /\ thr[t].w \in Removed
              /\ ~Registered(thr[t].w)

\* RemoveWorker and RemoveWorkerById run concurrently: each caller has deleted
\* its own worker and is inside that worker's SignalRemoval
C8_Witness ==
    \E t, u \in Callers :
        /\ thr[t].op = "RemoveWorker" /\ thr[t].pc = "sigSend"
        /\ thr[u].op = "RemoveWorkerById" /\ thr[u].pc = "sigSend"
        /\ thr[t].w # thr[u].w
        /\ ws[thr[t].w].sig = 1 /\ ws[thr[u].w].sig = 1

(* ------------------------------- C9 ----------------------------------- *)

\* C9: the critical section of AddWorker on an identity that is not in the
\* registry returns nil, registers the new worker and starts it, whatever the
\* earlier workers of that identity are doing; the mutex is only ever held by
\* a caller inside a critical section, whose next step is enabled, so that no
\* AddWorker waits for a removal's signal to be received; and no identity has
\* more than one registered instance.
C9_IdentityReusableAtOnce ==
    /\ [][\A t \in Callers :
            (thr[t].pc = "awCS" /\ thr'[t].pc # "awCS"
             /\ ID(thr[t].w) \notin DOMAIN workers)
            => /\ last' = Return("AddWorker", thr[t].id, RetNil)
               /\ ID(thr[t].w) \in DOMAIN workers'
               /\ workers'[ID(thr[t].w)] = thr[t].w
               /\ ws'[thr[t].w].pst = "select"
               /\ \A v \in Instances \ {thr[t].w} : ws'[v] = ws[v]]_vars
    /\ []((Running /\ mutex # Free) =>
             /\ thr[mutex].pc \in {"awCS", "rwCS", "rbCS"}
             /\ ENABLED (AddWorkerBody(mutex) \/ RemoveWorkerBody(mutex)
                         \/ RemoveWorkerByIdBody(mutex)))
    /\ [](\A id \in Ids : Cardinality(WithId(Added, id)) <= 1)

\* identity reused while its earlier worker is still running: instance 1 was
\* deleted and its remover has not got the signal through, instance 1 is still
\* inside Process, and instance 2 of the same identity is registered and
\* running
C9_Witness ==
    /\ ws[1].id = ws[2].id
    /\ ws[1].hist = "removed" /\ ws[1].pst \in {"select", "send"}
    /\ \E t \in Callers : thr[t].w = 1 /\ thr[t].pc \in {"signal", "sigSend"}
    /\ ws[2].hist = "added" /\ Registered(2) /\ ws[2].pst \in {"select", "send"}
    /\ last = Return("AddWorker", ws[2].id, RetNil)

(* ------------------------------- C10 ---------------------------------- *)

\* C10 (as claimed, its safety part): once the consumer has observed the
\* output channel closed, every worker goroutine that was started and the
\* shutdown goroutine have terminated, and every result placed on the output
\* channel has been received.
C10_ClosedMeansAllTerminated ==
    sawClose =>
        /\ \A w \in Started : ws[w].pst = "exited"
        /\ gs = "done"
        /\ produced \subseteq received

\* once the consumer has observed the output channel closed, the shutdown
\* goroutine has terminated and every result placed on the output channel has
\* been received
C10_ClosedMeansResultsDelivered ==
    sawClose => (gs = "done" /\ produced \subseteq received)

(* ------------------------------- C11 ---------------------------------- *)

\* the tasks AddTask has been called with so far
Submitted == 1..nextTask

\* callers whose AddTask has not yet placed task k on the input channel
Sending(k) == {t \in Callers : thr[t].pc = "send" /\ thr[t].task = k}

\* positions of value x in a channel's buffer
Buffered(ch, x) == {i \in 1..Len(ch) : ch[i] = x}

\* workers that received task k and have not yet sent its result
Holding(k) == {w \in Instances : ws[w].pst = "send" /\ ws[w].val = 0 - k}

\* task k has been received by a worker
Consumed(k) == Holding(k) # {} \/ (0 - k) \in produced

\* Every submitted task is in exactly one place: with its submitter, in the
\* input channel once, held by one worker, or turned into its result; and the
\* result -k is on the output side exactly once (buffered or received), and
\* nothing else is.
C11_TaskInOnePlace ==
    /\ \A k \in Submitted :
          /\ Cardinality(Sending(k)) + Cardinality(Buffered(inputCh, k))
               + Cardinality(Holding(k))
               + (IF (0 - k) \in produced THEN 1 ELSE 0) = 1
          /\ Cardinality(Buffered(outputCh, 0 - k))
               + (IF (0 - k) \in received THEN 1 ELSE 0)
               = (IF (0 - k) \in produced THEN 1 ELSE 0)
    /\ produced \subseteq {0 - k : k \in Submitted}
    /\ \A i \in 1..Len(inputCh) : inputCh[i] \in Submitted
    /\ \A w \in Instances : ws[w].pst = "send" => (0 - ws[w].val) \in Submitted

\* C11 (as claimed): every task placed on the input channel is received by at
\* most one worker, and each consumed task x produces exactly one result -x on
\* the output channel: no task is duplicated, and no consumed task is lost,
\* so a worker that holds a consumed task can still place its result (the
\* output channel is not closed under it).
C11_ConsumedTaskYieldsOneResult ==
    /\ C11_TaskInOnePlace
    /\ \A k \in Submitted : Holding(k) # {} => ~outClosed

(* ------------------------------- C12 ---------------------------------- *)

\* C12 (as claimed): when the output channel is closed, no task that AddTask
\* placed on the input channel is still unconsumed there, and every consumed
\* task has its result on the output channel.
C12_ClosedMeansQueueDrainedAndResultsOut ==
    outClosed =>
        /\ inputCh = <<>>
        /\ \A k \in Submitted : Consumed(k) => (0 - k) \in produced

(* ------------------------------- C13 ---------------------------------- *)

\* C13 (as claimed): an AddTask whose send meets the closed input channel
\* (racing with the close, blocked across it, or called after it) does not
\* panic its caller: no step of AddTask's send raises a panic.
C13_AddTaskNeverPanics ==
    [][\A t \in Callers : AddTaskSend(t) => panic' = "none"]_vars

(* ------------------------------- C14 ---------------------------------- *)

\* the step just taken is an AddWorker(id) that returned the factory's error
FactoryErrReturned(id) == last = Return("AddWorker", id, RetFactoryErr)

\* C14: when the factory returns an error, AddWorker returns that error and
\* changes nothing: the registry, the WaitGroup counter, the worker instances
\* and their goroutines, the channels and every caller are as before; the
\* mutex is not touched, and the return does not wait for it: an idle caller
\* can always take the factory-error return, whoever holds the mutex.
C14_FactoryErrorChangesNothing ==
    /\ [][\A t \in Callers, id \in Ids :
             AddWorkerFactoryErr(t, id) =>
                 /\ FactoryErrReturned(id)'
                 /\ UNCHANGED <<workers, mutex, wg, ctxDone, gs, inputCh,
                                inClosed, outputCh, outClosed, ws, nextW, thr,
                                nextTask, produced, received, sawClose,
                                panic>>]_vars
    /\ [](\A t \in Callers, id \in Ids :
             (Running /\ Idle(t)) =>
                 ENABLED (AddWorkerFactoryErr(t, id) /\ FactoryErrReturned(id)'))

\* an AddWorker has just returned the factory's error while another caller
\* holds the mutex inside AddWorker's critical section and a worker runs
C14_Witness ==
    /\ \E id \in Ids : FactoryErrReturned(id)
    /\ mutex # Free
    /\ \E t \in Callers : thr[t].pc = "awCS"
    /\ wg = 1 /\ Length = 1

(* ------------------------------- C15 ---------------------------------- *)

\* caller t is inside AddTask, at the send
AtSend(t) == thr[t].pc = "send"

CallingWorkerID(t) == thr[t].pc = "awCS"

\* caller t is at or inside the call target.SignalRemoval() of a removal
CallingSignalRemoval(t) == thr[t].pc \in {"signal", "sigSend"}

\* caller t is at a channel operation that can block: AddTask's send
AtBlockingChannelOp(t) == thr[t].pc = "send"

\* No caller holds the mutex at SignalRemoval or at a blocking channel
\* operation (Process runs on its own goroutine, which never locks, and the
\* factory is called by an idle caller before Lock).
C16_NoLockAcrossSignalOrChannel ==
    \A t \in Callers :
        (CallingSignalRemoval(t) \/ AtBlockingChannelOp(t) \/ Idle(t)
           \/ thr[t].pc = "awLock") => mutex # t

\* C16 (as claimed): whenever a call into worker code (the worker's ID,
\* SignalRemoval) or a blocking channel operation is in progress on a caller,
\* that caller does not hold the registry mutex.
C16_NoLockAcrossWorkerCode ==
    \A t \in Callers :
        (CallingWorkerID(t) \/ CallingSignalRemoval(t)
           \/ AtBlockingChannelOp(t)) => mutex # t

(* ------------------------------- C17 ---------------------------------- *)

\* instances whose goroutine (w.Process() and then p.wg.Done()) has been
\* started and has not finished
Unfinished == {w \in Instances : ws[w].pst \in {"select", "send", "returned"}}

\* positions of gracefullyShutdown at which p.wg.Wait() has not returned
BeforeWaitReturns == {"ctx", "wait", "blocked", "woken"}

\* C17: the WaitGroup counter always equals the number of worker goroutines
\* started and not yet finished, whether registered or removed, and is never
\* negative; the coordinator does not move before cancellation and the output
\* channel is open until Wait has returned; and while a goroutine that was
\* started before Wait returned is unfinished, Wait does not return: a worker
\* removed before cancellation whose Process has not returned keeps the output
\* channel open.
C17_WaitCountsStartedThreads ==
    /\ [](wg = Cardinality(Unfinished) /\ wg >= 0
          /\ panic # "negative WaitGroup counter")
    /\ [](~ctxDone => gs = "ctx")
    /\ [](gs \in BeforeWaitReturns => ~outClosed)
    /\ [][\A w \in Instances :
             (gs \in BeforeWaitReturns /\ w \in Unfinished /\ (w \in Unfinished)')
                 => gs' \in BeforeWaitReturns]_vars

\* cancellation has fired and the coordinator is blocked in Wait on a worker
\* that was removed from the registry and is still inside Process: the
\* registry is empty and the counter is one
C17_Witness ==
    /\ ctxDone /\ gs = "blocked" /\ ~outClosed
    /\ Length = 0 /\ wg = 1
    /\ \E w \in Instances :
          ws[w].hist = "removed" /\ ~Registered(w) /\ ws[w].pst = "send"

(* ------------------------------- C18 ---------------------------------- *)

\* caller t is inside SignalRemoval: its send on the worker's unbuffered done
\* channel waits for the worker's select to receive it
InSignalSend(t) == thr[t].pc = "sigSend"

\* C18 (as claimed): SignalRemoval does not block indefinitely, so a removal
\* of a registered worker returns: whenever a caller is inside SignalRemoval,
\* its target is still inside Process (at its select, or at the send of a
\* result after which it comes back to the select), so that the signal can be
\* received; in particular the target has not already returned from Process.
C18_SignalRemovalCanReturn ==
    \A t \in Callers :
        InSignalSend(t) => thr[t].w \in InProcess

(* ------------------------------- C19 ---------------------------------- *)

\* Each channel is closed at most once: close(p.inputCh) and
\* close(p.outputCh) are only ever executed on an open channel.
C19_ChannelsClosedOnce ==
    [][(CloseInput => ~inClosed) /\ (CloseOutput => ~outClosed)]_vars

\* C19 (as claimed): no worker executes its send of a result on the closed
\* output channel, and neither channel is closed a second time, in any
\* interleaving of AddWorker, AddTask, removal and cancellation.
C19_NoSendOnClosedOutput ==
    [][/\ \A w \in Instances : ProcessSend(w) => ~outClosed
       /\ CloseInput => ~inClosed
       /\ CloseOutput => ~outClosed]_vars

(* ------------------------------- C20 ---------------------------------- *)

\* the step is one of shutdown: the cancellation, a step of
\* gracefullyShutdown, a Process returning, or a worker goroutine finishing
ShutdownStep ==
    \/ ctxDone' # ctxDone
    \/ inClosed' # inClosed
    \/ outClosed' # outClosed
    \/ gs' # gs
    \/ \E w \in Instances :
          /\ ws'[w].pst # ws[w].pst
          /\ ws'[w].pst \in {"returned", "exited"}

\* C20: no step of shutdown changes the registry, so Length() and
\* Contains(id) are the same before and after it; the registry changes only
\* inside the critical section of an AddWorker or of a removal, by the caller
\* holding the mutex; and once the output channel is closed the registry
\* still maps the identity of every worker that was added and not removed,
\* even when its goroutine has finished.
C20_ShutdownLeavesRegistry ==
    /\ [][ShutdownStep =>
             /\ workers' = workers
             /\ Length' = Length
             /\ \A id \in Ids : Contains(id)' = Contains(id)]_vars
    /\ [][workers' # workers =>
             \E t \in Callers :
                 /\ mutex = t /\ thr[t].pc \in {"awCS", "rwCS", "rbCS"}
                 /\ thr'[t].pc # thr[t].pc]_vars
    /\ [](outClosed =>
             \A w \in Added : Registered(w) /\ Contains(ID(w)))

\* the pool is Closed, and a Length() call returns 1: the registry still
\* lists a worker that was never removed and whose goroutine has finished
C20_Witness ==
    /\ outClosed /\ gs = "done"
    /\ last = Return("Length", NoId, RetInt(1))
    /\ \E w \in Instances :
          ws[w].hist = "added" /\ Registered(w) /\ ws[w].pst = "exited"

=============================================================================
